---- MODULE Spec2Model ----
(***************************************************************************)
(* SlimFlix client-side widgets: the Alpine.js data objects jackettSearch, *)
(* availableMedia and recentMedia (static/js/scripts.js) and the admin     *)
(* settings forms (custom script).  Every fetch() promise chain is modelled*)
(* handler by handler; the browser's event loop runs one task at a time    *)
(* and drains the microtasks of a settled promise before the next task.    *)
(***************************************************************************)
EXTENDS Integers, Sequences, FiniteSets, TLC

VARIABLES
    ui,      \* widget id -> the Alpine data object of that widget instance
    reqs,    \* widget id -> the promise chains of its fetches not yet finalized
    net,     \* widget id -> fetch() calls observed: issued, finalized, last call
    button,  \* settings form -> its submit button: textContent, disabled
    notificationArea,  \* children of #settings-notifications (its innerHTML)
    saves,   \* promise chains of saveSettings calls not yet finalized
    timers,  \* pending setTimeout callbacks that clear the notification area
    saveNet, \* fetch() calls of saveSettings: issued, finalized, last call
    display, \* collapsible element -> its inline style.display
    toggleLog \* collapsible element -> style.display before its last two clicks

widgetVars == <<ui, reqs, net>>
settingsVars == <<button, notificationArea, saves, timers, saveNet>>
toggleVars == <<display, toggleLog>>
vars == <<ui, reqs, net, button, notificationArea, saves, timers, saveNet,
          display, toggleLog>>

----------------------------------------------------------------------------
(* Bounds                                                                   *)

\* search() calls with a valid query that one search widget may issue
MaxRequests == 2

\* submissions of the settings forms, both forms together
MaxSubmits == 3

\* fetch() calls of all widgets and forms of one page together
MaxPageFetches == 3

\* the same, on the page that holds every widget
MaxAllFetches == 2

----------------------------------------------------------------------------
(* Values                                                                   *)

\* A JavaScript string is a sequence of one-character strings.
WhiteSpace == {" "}

\* Texts a user may type into the search box (x-model on query).
QueryInputs ==
    { <<>>,
      <<"a", "b">>,
      <<" ", "a", "b", " ">>,
      <<"a", "b", "c">>,
      <<" ", "a", "b", "c", " ">> }

\* JavaScript undefined, as the value of a property that is absent.
Undefined == "undefined"

\* Decoded JSON bodies and the values a promise hands to its callbacks.
JsonArray(items) == [kind |-> "array", items |-> items, error |-> Undefined]
JsonError(msg) == [kind |-> "object", items |-> <<>>, error |-> msg]
Exception == [kind |-> "exception", items |-> <<>>, error |-> Undefined]
NoValue == [kind |-> "none", items |-> <<>>, error |-> Undefined]

EmptyList == JsonArray(<<>>)

\* Bodies the backend endpoints answer with: a JSON array or {error: ...}.
Payloads ==
    { JsonArray(<<"r1">>), JsonArray(<<"r2", "r3">>), JsonError("x") }

\* Widget instances: two search widgets made by jackettSearch() and one list
\* widget of each kind.
SearchIds == {"search", "search2"}
ListIds == {"available", "recent"}
Widgets == SearchIds \cup ListIds

\* The arguments each list widget was created with.
ListArgs ==
    [available |-> [mediaType |-> "movie", limit |-> "10"],
     recent    |-> [mediaType |-> "tv", limit |-> Undefined]]

NoCall == [url |-> <<>>, method |-> "none", body |-> <<>>]

\* The admin page's settings forms and the labels their markup gives the
\* submit buttons.
Forms == {"jackett-settings-form", "qbittorrent-settings-form"}

FormLabel(f) ==
    IF f = "jackett-settings-form" THEN "Save Jackett Settings"
    ELSE "Save qBittorrent Settings"

\* The keys of the object each submit listener builds from its inputs.
FormFields(f) ==
    IF f = "jackett-settings-form" THEN <<"jackett_url", "jackett_api_key">>
    ELSE <<"qbittorrent_url", "qbittorrent_user", "qbittorrent_pass">>

BusyLabel == "Saving..."

GenericMessage == "An unexpected error occurred. Check console for details."

\* Decoded bodies of /admin/save_settings: {success: bool, message: string}.
SaveResult(ok, msg) == [kind |-> "object", success |-> ok, message |-> msg]
SaveException == [kind |-> "exception", success |-> FALSE, message |-> ""]
SaveNoValue == [kind |-> "none", success |-> FALSE, message |-> ""]

SaveResults == { SaveResult(TRUE, "Saved"), SaveResult(FALSE, "Invalid URL") }

\* <div class="alert ${alertClass}" role="alert">${text}</div>
Alert(alertClass, text) == [class |-> <<"alert", alertClass>>, role |-> "alert", text |-> text]

\* The .season-toggle elements of the page with their data-target selectors,
\* and the elements those selectors find; one selector finds nothing.
Toggles == {"toggle-1", "toggle-2", "toggle-3"}

DataTarget(t) ==
    IF t = "toggle-1" THEN "#season-1"
    ELSE IF t = "toggle-2" THEN "#season-2" ELSE "#season-3"

Elements == {"#season-1", "#season-2"}

\* Values the markup may give a target's inline style.display ("" when it
\* sets none).
DisplayValues == {"", "none", "block", "flex"}

----------------------------------------------------------------------------
(* Pure helpers                                                             *)

RECURSIVE TrimStart(_)
TrimStart(s) ==
    IF s = <<>> THEN s
    ELSE IF Head(s) \in WhiteSpace THEN TrimStart(Tail(s)) ELSE s

RECURSIVE TrimEnd(_)
TrimEnd(s) ==
    IF s = <<>> THEN s
    ELSE IF s[Len(s)] \in WhiteSpace THEN TrimEnd(SubSeq(s, 1, Len(s) - 1)) ELSE s

\* String.prototype.trim
Trim(s) == TrimEnd(TrimStart(s))

\* ToBoolean of a property value
Truthy(v) == v \notin {Undefined, ""}

\* Mutant of ResultsOf: the decoded body is stored whatever it carries.
ResultsRaw(data) == data

\* data.error ? [] : data
ResultsOf(data) == IF Truthy(data.error) THEN EmptyList ELSE data

\* new FormData with query and media_type appended
SearchBody(q) == <<[name |-> "query", value |-> q],
                   [name |-> "media_type", value |-> <<"a", "l", "l">>]>>

\* Mutant of SearchCall: the trimmed query is sent.
SearchCallTrimmed(q) ==
    [url |-> <<"/search_jackett">>, method |-> "POST", body |-> SearchBody(Trim(q))]

SearchCall(q) == [url |-> <<"/search_jackett">>, method |-> "POST", body |-> SearchBody(q)]

ListCall(w) ==
    IF w = "available"
    THEN [url |-> <<"/jackett_available/", ListArgs[w].mediaType, "?limit=", ListArgs[w].limit>>,
          method |-> "GET", body |-> <<>>]
    ELSE [url |-> <<"/jackett_recent/", ListArgs[w].mediaType>>,
          method |-> "GET", body |-> <<>>]

\* A promise chain just created by fetch(): waiting for the response.  id is
\* the number of the fetch among those of its widget.
NewChain(id) == [id |-> id, st |-> "fetch", val |-> NoValue, ran |-> <<>>]

\* No promise reaction is queued: the event loop may run the next task.
Idle ==
    /\ \A w \in Widgets : \A i \in DOMAIN reqs[w] : reqs[w][i].st \in {"fetch", "json"}
    /\ \A i \in DOMAIN saves : saves[i].st \in {"fetch", "json"}

RemoveAt(s, i) == SubSeq(s, 1, i - 1) \o SubSeq(s, i + 1, Len(s))

----------------------------------------------------------------------------
(* Initial state: the data objects as their factories return them          *)

JackettSearchData ==
    [query |-> <<>>, results |-> EmptyList, loading |-> FALSE, searched |-> FALSE]

\* Mutant of ListData: a list widget created with loading: false, as the
\* search widget is.
ListDataIdle == [results |-> EmptyList, loading |-> FALSE]

ListData == [results |-> EmptyList, loading |-> TRUE]

WidgetInit ==
    /\ ui = [w \in Widgets |-> IF w \in SearchIds THEN JackettSearchData ELSE ListData]
    /\ reqs = [w \in Widgets |-> <<>>]
    /\ net = [w \in Widgets |-> [issued |-> 0, finalized |-> 0, last |-> NoCall]]

----------------------------------------------------------------------------
(* Tasks                                                                    *)

\* x-model="query": the user edits the search box
SetQuery(w, q) ==
    /\ Idle
    /\ w \in SearchIds
    /\ ui' = [ui EXCEPT ![w].query = q]
    /\ UNCHANGED <<reqs, net>>

\* fetch(...) followed by the registration of the four reactions
Dispatch(w, call) ==
    /\ reqs' = [reqs EXCEPT ![w] = Append(@, NewChain(net[w].issued + 1))]
    /\ net' = [net EXCEPT ![w].issued = @ + 1, ![w].last = call]

\* Mutant of Search: the length test is made on the untrimmed query.
SearchUntrimmed(w) ==
    /\ Idle
    /\ w \in SearchIds
    /\ IF Len(ui[w].query) < 3
       THEN /\ ui' = [ui EXCEPT ![w].results = EmptyList, ![w].searched = FALSE]
            /\ UNCHANGED <<reqs, net>>
       ELSE /\ net[w].issued < MaxRequests
            /\ ui' = [ui EXCEPT ![w].loading = TRUE, ![w].searched = TRUE]
            /\ Dispatch(w, SearchCall(ui[w].query))

\* jackettSearch().search()
Search(w) ==
    /\ Idle
    /\ w \in SearchIds
    /\ IF Len(Trim(ui[w].query)) < 3
       THEN /\ ui' = [ui EXCEPT ![w].results = EmptyList, ![w].searched = FALSE]
            /\ UNCHANGED <<reqs, net>>
       ELSE /\ net[w].issued < MaxRequests
            /\ ui' = [ui EXCEPT ![w].loading = TRUE, ![w].searched = TRUE]
            /\ Dispatch(w, SearchCall(ui[w].query))

\* availableMedia().init() / recentMedia().init(): Alpine calls init() once,
\* when it creates the component.
ListInitCall(w) ==
    /\ Idle
    /\ w \in ListIds
    /\ net[w].issued = 0
    /\ Dispatch(w, ListCall(w))
    /\ UNCHANGED ui

\* The response arrives: fetch's promise fulfils and res => res.json() starts
\* reading the body.
FetchFulfilled(w, i) ==
    /\ Idle
    /\ i \in DOMAIN reqs[w]
    /\ reqs[w][i].st = "fetch"
    /\ reqs' = [reqs EXCEPT ![w][i].st = "json"]
    /\ UNCHANGED <<ui, net>>

\* Transport failure: fetch's promise rejects; both then-reactions pass the
\* rejection on to the catch-reaction.
FetchRejected(w, i) ==
    /\ Idle
    /\ i \in DOMAIN reqs[w]
    /\ reqs[w][i].st = "fetch"
    /\ reqs' = [reqs EXCEPT ![w][i].st = "catch", ![w][i].val = Exception]
    /\ UNCHANGED <<ui, net>>

\* The body was read and parsed: res.json() fulfils with the decoded value.
JsonFulfilled(w, i, data) ==
    /\ Idle
    /\ i \in DOMAIN reqs[w]
    /\ reqs[w][i].st = "json"
    /\ reqs' = [reqs EXCEPT ![w][i].st = "then", ![w][i].val = data]
    /\ UNCHANGED <<ui, net>>

\* Decoding failure: res.json() rejects.
JsonRejected(w, i) ==
    /\ Idle
    /\ i \in DOMAIN reqs[w]
    /\ reqs[w][i].st = "json"
    /\ reqs' = [reqs EXCEPT ![w][i].st = "catch", ![w][i].val = Exception]
    /\ UNCHANGED <<ui, net>>

----------------------------------------------------------------------------
(* Promise reactions (microtasks)                                           *)

\* Mutant of ThenHandler: a response to a request that is not the widget's
\* latest is dropped.
ThenHandlerIgnoresStale(w, i) ==
    /\ i \in DOMAIN reqs[w]
    /\ reqs[w][i].st = "then"
    /\ ui' = [ui EXCEPT ![w].results =
                  IF reqs[w][i].id = net[w].issued THEN ResultsOf(reqs[w][i].val) ELSE @]
    /\ reqs' = [reqs EXCEPT ![w][i].st = "finally",
                            ![w][i].ran = Append(@, "then")]
    /\ UNCHANGED net

\* Mutant of ThenHandler: the widgets made by one factory share one results
\* list (a list created once, outside the returned object).
ThenHandlerShared(w, i) ==
    /\ i \in DOMAIN reqs[w]
    /\ reqs[w][i].st = "then"
    /\ ui' = [x \in Widgets |->
                IF (x \in SearchIds) = (w \in SearchIds)
                THEN [ui[x] EXCEPT !.results = ResultsOf(reqs[w][i].val)]
                ELSE ui[x]]
    /\ reqs' = [reqs EXCEPT ![w][i].st = "finally",
                            ![w][i].ran = Append(@, "then")]
    /\ UNCHANGED net

\* .then(data => this.results = data.error ? [] : data); the fulfilled
\* promise passes through .catch to .finally
ThenHandler(w, i) ==
    /\ i \in DOMAIN reqs[w]
    /\ reqs[w][i].st = "then"
    /\ ui' = [ui EXCEPT ![w].results = ResultsOf(reqs[w][i].val)]
    /\ reqs' = [reqs EXCEPT ![w][i].st = "finally",
                            ![w][i].ran = Append(@, "then")]
    /\ UNCHANGED net

\* Mutant of CatchHandler: no .finally; loading is reset by the success
\* handler alone, so a failed chain ends after the error handler.
CatchHandlerEndsChain(w, i) ==
    /\ i \in DOMAIN reqs[w]
    /\ reqs[w][i].st = "catch"
    /\ reqs' = [reqs EXCEPT ![w] = RemoveAt(@, i)]
    /\ UNCHANGED <<ui, net>>

\* Mutant of CatchHandler: the error handler also empties the results.
CatchHandlerClears(w, i) ==
    /\ i \in DOMAIN reqs[w]
    /\ reqs[w][i].st = "catch"
    /\ ui' = [ui EXCEPT ![w].results = EmptyList]
    /\ reqs' = [reqs EXCEPT ![w][i].st = "finally",
                            ![w][i].val = NoValue,
                            ![w][i].ran = Append(@, "catch")]
    /\ UNCHANGED net

\* .catch(err => console.error('Fetch Error:', err)): the error goes to the
\* developer console, which nothing reads back; the chain records the call.
CatchHandler(w, i) ==
    /\ i \in DOMAIN reqs[w]
    /\ reqs[w][i].st = "catch"
    /\ reqs' = [reqs EXCEPT ![w][i].st = "finally",
                            ![w][i].val = NoValue,
                            ![w][i].ran = Append(@, "catch")]
    /\ UNCHANGED <<ui, net>>

\* Mutant of FinallyHandler: finalization also resets searched.
FinallyResetsSearched(w, i) ==
    /\ i \in DOMAIN reqs[w]
    /\ reqs[w][i].st = "finally"
    /\ ui' = [ui EXCEPT ![w].loading = FALSE, ![w].searched = FALSE]
    /\ reqs' = [reqs EXCEPT ![w] = RemoveAt(@, i)]
    /\ net' = [net EXCEPT ![w].finalized = @ + 1]

\* .finally(() => this.loading = false); the chain is settled afterwards
FinallyHandler(w, i) ==
    /\ i \in DOMAIN reqs[w]
    /\ reqs[w][i].st = "finally"
    /\ ui' = [ui EXCEPT ![w].loading = FALSE]
    /\ reqs' = [reqs EXCEPT ![w] = RemoveAt(@, i)]
    /\ net' = [net EXCEPT ![w].finalized = @ + 1]

----------------------------------------------------------------------------
(* Settings forms                                                           *)

SettingsInit ==
    /\ button = [f \in Forms |-> [textContent |-> FormLabel(f), disabled |-> FALSE]]
    /\ notificationArea = <<>>
    /\ saves = <<>>
    /\ timers = 0
    /\ saveNet = [issued |-> 0, finalized |-> 0, last |-> NoCall]

SaveCall(f) ==
    [url |-> <<"/admin/save_settings">>, method |-> "POST", body |-> FormFields(f)]

\* Mutant of SaveSettings: a new submission cancels the pending clear-timers
\* (clearTimeout on a kept handle).
SaveSettingsCancelsTimers(f) ==
    /\ saves' = Append(saves, [form |-> f,
                               originalButtonText |-> button[f].textContent,
                               st |-> "fetch", val |-> SaveNoValue, ran |-> <<>>])
    /\ button' = [button EXCEPT ![f] = [textContent |-> BusyLabel, disabled |-> TRUE]]
    /\ notificationArea' = <<>>
    /\ saveNet' = [saveNet EXCEPT !.issued = @ + 1, !.last = SaveCall(f)]
    /\ timers' = 0

\* Mutant of SaveSettings: the label is read after the busy label was set.
SaveSettingsLateCapture(f) ==
    /\ saves' = Append(saves, [form |-> f,
                               originalButtonText |-> BusyLabel,
                               st |-> "fetch", val |-> SaveNoValue, ran |-> <<>>])
    /\ button' = [button EXCEPT ![f] = [textContent |-> BusyLabel, disabled |-> TRUE]]
    /\ notificationArea' = <<>>
    /\ saveNet' = [saveNet EXCEPT !.issued = @ + 1, !.last = SaveCall(f)]
    /\ UNCHANGED timers

\* saveSettings(data, formElement) up to the registration of the reactions:
\* the label is captured, the button is put in its busy state, the
\* notification area is emptied and the request is sent.
SaveSettings(f) ==
    /\ saves' = Append(saves, [form |-> f,
                               originalButtonText |-> button[f].textContent,
                               st |-> "fetch", val |-> SaveNoValue, ran |-> <<>>])
    /\ button' = [button EXCEPT ![f] = [textContent |-> BusyLabel, disabled |-> TRUE]]
    /\ notificationArea' = <<>>
    /\ saveNet' = [saveNet EXCEPT !.issued = @ + 1, !.last = SaveCall(f)]
    /\ UNCHANGED timers

\* The submit listener of a settings form.  The browser dispatches a user's
\* submit event only through an enabled submit button: a click on a disabled
\* button does nothing and implicit submission is blocked while the form's
\* default button is disabled.
Submit(f) ==
    /\ Idle
    /\ ~button[f].disabled
    /\ saveNet.issued < MaxSubmits
    /\ SaveSettings(f)

SaveFetchFulfilled(i) ==
    /\ Idle
    /\ i \in DOMAIN saves
    /\ saves[i].st = "fetch"
    /\ saves' = [saves EXCEPT ![i].st = "json"]
    /\ UNCHANGED <<button, notificationArea, timers, saveNet>>

SaveFetchRejected(i) ==
    /\ Idle
    /\ i \in DOMAIN saves
    /\ saves[i].st = "fetch"
    /\ saves' = [saves EXCEPT ![i].st = "catch", ![i].val = SaveException]
    /\ UNCHANGED <<button, notificationArea, timers, saveNet>>

SaveJsonFulfilled(i, result) ==
    /\ Idle
    /\ i \in DOMAIN saves
    /\ saves[i].st = "json"
    /\ saves' = [saves EXCEPT ![i].st = "then", ![i].val = result]
    /\ UNCHANGED <<button, notificationArea, timers, saveNet>>

SaveJsonRejected(i) ==
    /\ Idle
    /\ i \in DOMAIN saves
    /\ saves[i].st = "json"
    /\ saves' = [saves EXCEPT ![i].st = "catch", ![i].val = SaveException]
    /\ UNCHANGED <<button, notificationArea, timers, saveNet>>

\* result.success ? 'alert-success' : 'alert-danger'
AlertClass(result) == IF result.success = TRUE THEN "alert-success" ELSE "alert-danger"

\* Mutant of SaveThen: the banner is appended to the notification area.
SaveThenAppends(i) ==
    /\ i \in DOMAIN saves
    /\ saves[i].st = "then"
    /\ notificationArea' =
           Append(notificationArea, Alert(AlertClass(saves[i].val), saves[i].val.message))
    /\ saves' = [saves EXCEPT ![i].st = "finally", ![i].ran = Append(@, "then")]
    /\ UNCHANGED <<button, timers, saveNet>>

\* .then(result => { ...; notificationArea.innerHTML = message; })
SaveThen(i) ==
    /\ i \in DOMAIN saves
    /\ saves[i].st = "then"
    /\ notificationArea' = <<Alert(AlertClass(saves[i].val), saves[i].val.message)>>
    /\ saves' = [saves EXCEPT ![i].st = "finally", ![i].ran = Append(@, "then")]
    /\ UNCHANGED <<button, timers, saveNet>>

\* Mutant of SaveCatch: the error is logged and no banner is rendered.
SaveCatchLogsOnly(i) ==
    /\ i \in DOMAIN saves
    /\ saves[i].st = "catch"
    /\ saves' = [saves EXCEPT ![i].st = "finally", ![i].val = SaveNoValue,
                              ![i].ran = Append(@, "catch")]
    /\ UNCHANGED <<button, notificationArea, timers, saveNet>>

\* .catch((error) => { console.error(...); notificationArea.innerHTML = message; })
SaveCatch(i) ==
    /\ i \in DOMAIN saves
    /\ saves[i].st = "catch"
    /\ notificationArea' = <<Alert("alert-danger", GenericMessage)>>
    /\ saves' = [saves EXCEPT ![i].st = "finally", ![i].val = SaveNoValue,
                              ![i].ran = Append(@, "catch")]
    /\ UNCHANGED <<button, timers, saveNet>>

\* Mutant of SaveFinally: the button is restored and no timer is set.
SaveFinallyNoTimer(i) ==
    /\ i \in DOMAIN saves
    /\ saves[i].st = "finally"
    /\ button' = [button EXCEPT ![saves[i].form] =
                      [textContent |-> saves[i].originalButtonText, disabled |-> FALSE]]
    /\ saves' = RemoveAt(saves, i)
    /\ saveNet' = [saveNet EXCEPT !.finalized = @ + 1]
    /\ UNCHANGED <<notificationArea, timers>>

\* .finally(() => { button restored; setTimeout(clear, 5000); })
SaveFinally(i) ==
    /\ i \in DOMAIN saves
    /\ saves[i].st = "finally"
    /\ button' = [button EXCEPT ![saves[i].form] =
                      [textContent |-> saves[i].originalButtonText, disabled |-> FALSE]]
    /\ timers' = timers + 1
    /\ saves' = RemoveAt(saves, i)
    /\ saveNet' = [saveNet EXCEPT !.finalized = @ + 1]
    /\ UNCHANGED notificationArea

\* A 5000 ms timer expires: () => { notificationArea.innerHTML = ''; }
TimerFires ==
    /\ Idle
    /\ timers > 0
    /\ notificationArea' = <<>>
    /\ timers' = timers - 1
    /\ UNCHANGED <<button, saves, saveNet>>

----------------------------------------------------------------------------
(* Collapsible seasons                                                      *)

\* The targets as the page's markup leaves them (seasons collapsed).
ToggleInit ==
    /\ display = [e \in Elements |-> "none"]
    /\ toggleLog = [e \in Elements |-> <<>>]

\* The targets with any inline display the markup may give them.
ToggleInitAny ==
    /\ display \in [Elements -> DisplayValues]
    /\ toggleLog = [e \in Elements |-> <<>>]

\* The last two entries of a log after one more entry.
Logged(log, d) == IF log = <<>> THEN <<d>> ELSE <<log[Len(log)], d>>

\* Mutant of ToggleDisplay: the test is made against 'block'.
ToggleDisplayBlockTest(d) == IF d = "block" THEN "none" ELSE "block"

\* if (style.display === 'none') 'block' else 'none'
ToggleDisplay(d) == IF d = "none" THEN "block" ELSE "none"

\* The click listener of a .season-toggle element.
ClickToggle(t) ==
    /\ Idle
    /\ LET targetId == DataTarget(t) IN
         IF targetId \in Elements
         THEN /\ display' = [display EXCEPT ![targetId] = ToggleDisplay(@)]
              /\ toggleLog' = [toggleLog EXCEPT ![targetId] = Logged(@, display[targetId])]
         ELSE UNCHANGED <<display, toggleLog>>

----------------------------------------------------------------------------
(* Specifications                                                           *)

NetworkStep(w) ==
    \E i \in 1..MaxRequests :
        \/ FetchFulfilled(w, i)
        \/ FetchRejected(w, i)
        \/ \E data \in Payloads : JsonFulfilled(w, i, data)
        \/ JsonRejected(w, i)

ReactionStep(w) ==
    \E i \in 1..MaxRequests :
        \/ ThenHandler(w, i)
        \/ CatchHandler(w, i)
        \/ FinallyHandler(w, i)

\* The search widget of a page that holds one.
PageSearchIds == {"search"}

SearchNext ==
    /\ \E w \in PageSearchIds :
        \/ \E q \in QueryInputs : SetQuery(w, q)
        \/ Search(w)
        \/ NetworkStep(w)
        \/ ReactionStep(w)
    /\ UNCHANGED <<settingsVars, toggleVars>>

ListNext ==
    /\ \E w \in ListIds :
        \/ ListInitCall(w)
        \/ NetworkStep(w)
        \/ ReactionStep(w)
    /\ UNCHANGED <<settingsVars, toggleVars>>

SettingsNext ==
    /\ \/ \E f \in Forms : Submit(f)
       \/ \E i \in 1..MaxSubmits :
            \/ SaveFetchFulfilled(i)
            \/ SaveFetchRejected(i)
            \/ \E result \in SaveResults : SaveJsonFulfilled(i, result)
            \/ SaveJsonRejected(i)
            \/ SaveThen(i)
            \/ SaveCatch(i)
            \/ SaveFinally(i)
       \/ TimerFires
    /\ UNCHANGED <<widgetVars, toggleVars>>

Init == WidgetInit /\ SettingsInit /\ ToggleInit

\* fetch() calls made on the page so far
PageFetches ==
    net["search"].issued + net["search2"].issued
        + net["available"].issued + net["recent"].issued + saveNet.issued

\* The page with the search widget and both list widgets.
Next ==
    /\ SearchNext \/ ListNext
    /\ PageFetches' <= MaxPageFetches

Spec == Init /\ [][Next]_vars

\* The search widget alone.
SpecSearch == Init /\ [][SearchNext]_vars

\* The admin page.
SpecSettings == Init /\ [][SettingsNext]_vars

\* The admin page with the scheduling the browser guarantees: a queued
\* promise reaction runs, and a timer that was set expires.
SaveReactionStep ==
    /\ \E i \in 1..MaxSubmits : SaveThen(i) \/ SaveCatch(i) \/ SaveFinally(i)
    /\ UNCHANGED <<widgetVars, toggleVars>>

SpecSettingsFair ==
    /\ SpecSettings
    /\ WF_vars(SaveReactionStep)
    /\ SF_vars(TimerFires /\ UNCHANGED <<widgetVars, toggleVars>>)

\* The TV show detail page: the collapsible seasons.
ToggleNext ==
    /\ \E t \in Toggles : ClickToggle(t)
    /\ UNCHANGED <<widgetVars, settingsVars>>

TogglePageInit == WidgetInit /\ SettingsInit /\ ToggleInitAny

SpecToggle == TogglePageInit /\ [][ToggleNext]_vars

\* A page that holds every widget: two search widgets, both list widgets and
\* the settings forms.
\* The texts typed on that page: one too short, one long enough.
AllQueryInputs == { <<" ", "a", "b", " ">>, <<"a", "b", "c">> }

AllNext ==
    /\ \/ /\ \E w \in SearchIds :
                \/ \E q \in AllQueryInputs : SetQuery(w, q)
                \/ Search(w)
                \/ NetworkStep(w)
                \/ ReactionStep(w)
          /\ UNCHANGED <<settingsVars, toggleVars>>
       \/ ListNext
       \/ SettingsNext
    /\ PageFetches' <= MaxAllFetches

SpecAll == Init /\ [][AllNext]_vars

----------------------------------------------------------------------------
(* Claims                                                                   *)

\* C1: while any request issued by a search widget is dispatched and not yet
\* settled, that widget's loading is true.
C1_LoadingWhileOutstanding ==
    \A w \in SearchIds : reqs[w] # <<>> => ui[w].loading = TRUE

\* C2: a search() call whose query has trimmed length below 3 issues no
\* request, empties results, sets searched to false and leaves loading alone,
\* in every widget state.
C2_ShortQueryNoRequest ==
    [][\A w \in SearchIds :
          (Search(w) /\ Len(Trim(ui[w].query)) < 3) =>
              /\ ui'[w].results = EmptyList
              /\ ui'[w].searched = FALSE
              /\ ui'[w].loading = ui[w].loading
              /\ ui'[w].query = ui[w].query
              /\ net'[w] = net[w]
              /\ reqs'[w] = reqs[w]]_vars

\* A too-short search() (typed text of length 4, trimmed length 2) was handled
\* while an earlier request was still in flight.
C2_Witness ==
    \E w \in SearchIds :
        /\ ui[w].query = <<" ", "a", "b", " ">>
        /\ ui[w].searched = FALSE
        /\ ui[w].loading = TRUE
        /\ ui[w].results = EmptyList
        /\ net[w].issued = 1
        /\ Len(reqs[w]) = 1

\* C3: a search() call whose query has trimmed length at least 3 sets loading
\* and searched to true and dispatches exactly one POST to /search_jackett
\* carrying the untrimmed query and media_type "all"; requests are dispatched
\* by search() calls only, never by a response, error or finalization step.
C3_OnePostPerSearch ==
    [][\A w \in SearchIds :
          /\ (Search(w) /\ Len(Trim(ui[w].query)) >= 3) =>
                /\ ui'[w].loading = TRUE
                /\ ui'[w].searched = TRUE
                /\ net'[w].issued = net[w].issued + 1
                /\ Len(reqs'[w]) = Len(reqs[w]) + 1
                /\ net'[w].last.url = <<"/search_jackett">>
                /\ net'[w].last.method = "POST"
                /\ net'[w].last.body =
                       <<[name |-> "query", value |-> ui[w].query],
                         [name |-> "media_type", value |-> <<"a", "l", "l">>]>>
          /\ net'[w].issued # net[w].issued =>
                /\ net'[w].issued = net[w].issued + 1
                /\ Len(Trim(ui[w].query)) >= 3
                /\ \A i \in DOMAIN reqs[w] :
                       /\ reqs[w][i].st \in {"fetch", "json"}
                       /\ reqs'[w][i] = reqs[w][i]]_vars

\* One search() with a padded query was issued and has settled: one request
\* was sent in all, carrying the padding.
C3_Witness ==
    \E w \in SearchIds :
        /\ net[w].issued = 1
        /\ net[w].finalized = 1
        /\ net[w].last.body[1].value = <<" ", "a", "b", "c", " ">>
        /\ ui[w].searched = TRUE

\* C4: every request of a search or list widget is finalized exactly once,
\* after its success or its error handler, and the finalization sets loading
\* to false.
C4_ChainShape ==
    \A w \in Widgets :
        /\ net[w].issued = net[w].finalized + Len(reqs[w])
        /\ \A i \in DOMAIN reqs[w] :
              IF reqs[w][i].st = "finally"
              THEN reqs[w][i].ran \in {<<"then">>, <<"catch">>}
              ELSE reqs[w][i].ran = <<>>

C4_FinalizedOnce ==
    /\ []C4_ChainShape
    /\ [][\A w \in Widgets :
            (net'[w].finalized # net[w].finalized \/ Len(reqs'[w]) < Len(reqs[w])) =>
                /\ net'[w].finalized = net[w].finalized + 1
                /\ ui'[w].loading = FALSE
                /\ \E i \in DOMAIN reqs[w] :
                       /\ reqs[w][i].st = "finally"
                       /\ reqs'[w] = RemoveAt(reqs[w], i)]_vars

\* Both requests of the search widget and the request of a list widget have
\* been finalized.
C4_Witness ==
    /\ net["search"].issued = MaxRequests
    /\ net["search"].finalized = MaxRequests
    /\ ui["search"].loading = FALSE
    /\ ui["search"].results = JsonArray(<<"r1">>)
    /\ net["recent"].finalized = 1
    /\ ui["recent"].loading = FALSE

C6_FailureKeepsResults ==
    [][\A w \in Widgets : \A i \in DOMAIN reqs[w] :
          /\ (reqs[w][i].st = "catch" \/ (i \in DOMAIN reqs'[w] /\ reqs'[w][i].st = "catch")) =>
                ui'[w] = ui[w]
          /\ (reqs[w][i].st = "finally" /\ reqs[w][i].ran = <<"catch">>
                  /\ reqs'[w] = RemoveAt(reqs[w], i)) =>
                ui'[w] = [ui[w] EXCEPT !.loading = FALSE]]_vars

\* The error handler of the search widget has run while the widget shows the
\* results of an earlier request; a list widget is settled.
C6_Witness ==
    /\ \E i \in DOMAIN reqs["search"] :
          reqs["search"][i].st = "finally" /\ reqs["search"][i].ran = <<"catch">>
    /\ ui["search"].results = JsonArray(<<"r1">>)
    /\ ui["search"].searched = TRUE
    /\ net["recent"].finalized = 1

\* C7: a list widget issues one GET at most, is loading from creation until
\* that request is finalized, and after that its results and loading stay as
\* they are.
C7_ListShape ==
    \A w \in ListIds :
        /\ net[w].issued <= 1
        /\ net[w].issued = 1 => net[w].last.method = "GET"
        /\ net[w].finalized = 0 => ui[w].loading = TRUE

C7_FetchedOnce ==
    /\ []C7_ListShape
    /\ [][\A w \in ListIds :
            net[w].finalized = 1 => (ui'[w] = ui[w] /\ net'[w] = net[w] /\ reqs'[w] = <<>>)]_vars

\* Both list widgets are settled, one with results, while the search widget
\* goes on working.
C7_Witness ==
    /\ net["available"].finalized = 1
    /\ net["recent"].finalized = 1
    /\ ui["available"].results = JsonArray(<<"r1">>)
    /\ ui["recent"].results = EmptyList
    /\ ui["available"].loading = FALSE
    /\ net["search"].issued = 1

\* C8: a form's submit button is disabled with the busy label while a save
\* of that form is unsettled, and enabled with the form's own label otherwise.
C8_ButtonState ==
    \A f \in Forms :
        IF \E i \in DOMAIN saves : saves[i].form = f
        THEN button[f] = [textContent |-> "Saving...", disabled |-> TRUE]
        ELSE button[f] = [textContent |-> FormLabel(f), disabled |-> FALSE]

\* One form's save has failed and its button is restored while the other
\* form's save is still in flight.
C8_Witness ==
    /\ saveNet.finalized >= 1
    /\ notificationArea # <<>>
    /\ notificationArea[1].text = GenericMessage
    /\ button["jackett-settings-form"].disabled = FALSE
    /\ button["jackett-settings-form"].textContent = FormLabel("jackett-settings-form")
    /\ button["qbittorrent-settings-form"].disabled = TRUE
    /\ \E i \in DOMAIN saves : saves[i].form = "qbittorrent-settings-form"

\* C9: handling a decoded save response leaves exactly one banner with the
\* server's message, success-styled exactly when success is true; the
\* notification area never holds more than one banner.
C9_OneBanner ==
    /\ [](Len(notificationArea) <= 1)
    /\ [][\A i \in DOMAIN saves :
            (saves[i].st = "then" /\ i \in DOMAIN saves' /\ saves'[i].st # "then") =>
                /\ Len(notificationArea') = 1
                /\ notificationArea'[1].text = saves[i].val.message
                /\ notificationArea'[1].class =
                       IF saves[i].val.success = TRUE
                       THEN <<"alert", "alert-success">>
                       ELSE <<"alert", "alert-danger">>]_vars

\* The success banner of one form is shown while the other form's save is in
\* flight.
C9_Witness ==
    /\ notificationArea = <<Alert("alert-success", "Saved")>>
    /\ saveNet.issued = 2
    /\ \E i \in DOMAIN saves : saves[i].st = "json"

\* C10: handling a rejected or undecodable save leaves exactly one
\* failure-styled banner with the generic message, and the finalization that
\* follows leaves the form's button enabled with its original label.
C10_GenericFailure ==
    [][\A i \in DOMAIN saves :
          /\ (saves[i].st = "catch" /\ i \in DOMAIN saves' /\ saves'[i].st # "catch") =>
                /\ Len(notificationArea') = 1
                /\ notificationArea'[1].class = <<"alert", "alert-danger">>
                /\ notificationArea'[1].text =
                       "An unexpected error occurred. Check console for details."
          /\ (saves[i].st = "finally" /\ saves[i].ran = <<"catch">>
                  /\ saves' = RemoveAt(saves, i)) =>
                button'[saves[i].form] =
                    [textContent |-> FormLabel(saves[i].form), disabled |-> FALSE]]_vars

\* A save has failed and is finalized: the generic banner is shown and the
\* buttons are enabled with their labels.
C10_Witness ==
    /\ notificationArea = <<Alert("alert-danger", GenericMessage)>>
    /\ saves = <<>>
    /\ saveNet.finalized = 1
    /\ timers = 1
    /\ \A f \in Forms : button[f] = [textContent |-> FormLabel(f), disabled |-> FALSE]

\* C11: every finalized submission sets exactly one timer and a timer goes
\* away only by expiring, which empties the notification area; so a banner
\* that is shown is eventually removed, and with no timer pending and no
\* handler running the area is empty.
C11_TimerShape ==
    (timers = 0 /\ Idle) => notificationArea = <<>>

C11_ClearScheduled ==
    /\ []C11_TimerShape
    /\ [][/\ saveNet'.finalized # saveNet.finalized =>
                (saveNet'.finalized = saveNet.finalized + 1 /\ timers' = timers + 1)
          /\ timers' > timers => saveNet'.finalized = saveNet.finalized + 1
          /\ timers' < timers =>
                /\ timers' = timers - 1
                /\ notificationArea' = <<>>
                /\ saves' = saves
                /\ saveNet' = saveNet]_vars
    /\ (notificationArea # <<>>) ~> (notificationArea = <<>>)

\* One submission was answered, its banner was shown and its timer has
\* expired: the area is empty again.
C11_Witness ==
    /\ saveNet.issued = 1
    /\ saveNet.finalized = 1
    /\ timers = 0
    /\ notificationArea = <<>>
    /\ saves = <<>>

\* C12: after two clicks on a toggle whose target exists the target is
\* visible exactly if it was visible before the first of them, whatever its
\* display was; a click on a toggle whose target does not exist changes
\* nothing.
C12_TwoClicks ==
    \A e \in Elements :
        Len(toggleLog[e]) = 2 => ((display[e] # "none") <=> (toggleLog[e][1] # "none"))

C12_ToggleTwice ==
    /\ []C12_TwoClicks
    /\ [][\A t \in Toggles :
            (ClickToggle(t) /\ DataTarget(t) \notin Elements) => UNCHANGED vars]_vars
    /\ [][\A e \in Elements :
            display'[e] # display[e] => (display'[e] # "none") # (display[e] # "none")]_vars

\* A target whose markup sets no inline display was clicked twice and ends
\* with display block; another that was hidden was clicked twice and is
\* hidden again.
C12_Witness ==
    /\ toggleLog["#season-1"] = <<"", "none">>
    /\ display["#season-1"] = "block"
    /\ toggleLog["#season-2"] = <<"none", "block">>
    /\ display["#season-2"] = "none"

\* C13: a step changes the state of one widget instance at most, where the
\* instances are the two search widgets, the two list widgets and the
\* settings handler; so nothing one instance does reaches another, and two
\* widgets of one factory share no field.
C13_Changed(w) == ui'[w] # ui[w] \/ reqs'[w] # reqs[w] \/ net'[w] # net[w]

C13_SettingsChanged == settingsVars' # settingsVars

C13_Independent ==
    [][/\ \A w \in Widgets : \A x \in Widgets \ {w} : ~(C13_Changed(w) /\ C13_Changed(x))
       /\ \A w \in Widgets : ~(C13_Changed(w) /\ C13_SettingsChanged)]_vars

\* One search widget shows the results of its settled search while the other,
\* whose text was edited after its own search, is still loading.
C13_Witness ==
    /\ ui["search"] = [query |-> <<"a", "b", "c">>, results |-> JsonArray(<<"r1">>),
                       loading |-> FALSE, searched |-> TRUE]
    /\ ui["search2"] = [query |-> <<" ", "a", "b", " ">>, results |-> EmptyList,
                        loading |-> TRUE, searched |-> TRUE]
    /\ net["search"].finalized = 1
    /\ Len(reqs["search2"]) = 1

\* C14: a valid search() issued while earlier requests are pending leaves
\* their chains as they are and adds its own; the success handler of a
\* request that is no longer the latest still replaces results with its
\* payload, so results can hold the payload of an earlier request while
\* query is that of a later one.
C14_LastWriteWins ==
    [][\A w \in SearchIds :
          /\ net'[w].issued # net[w].issued =>
                /\ Len(reqs'[w]) = Len(reqs[w]) + 1
                /\ SubSeq(reqs'[w], 1, Len(reqs[w])) = reqs[w]
                /\ reqs'[w][Len(reqs'[w])].id = net'[w].issued
          /\ \A i \in DOMAIN reqs[w] :
                (reqs[w][i].st = "then" /\ reqs[w][i].id < net[w].issued
                    /\ i \in DOMAIN reqs'[w] /\ reqs'[w][i].st # "then"
                    /\ reqs[w][i].val.kind = "array") =>
                        ui'[w].results = reqs[w][i].val]_vars

\* Two searches were issued; the second is finalized and the response to the
\* first, arriving last, has put its payload into results while query is the
\* second search's.
C14_Witness ==
    /\ net["search"].issued = 2
    /\ net["search"].finalized = 1
    /\ \E i \in DOMAIN reqs["search"] :
          /\ reqs["search"][i].id = 1
          /\ reqs["search"][i].st = "finally"
          /\ reqs["search"][i].ran = <<"then">>
          /\ reqs["search"][i].val = JsonArray(<<"r1">>)
    /\ ui["search"].results = JsonArray(<<"r1">>)
    /\ ui["search"].query = <<" ", "a", "b", "c", " ">>
    /\ net["search"].last.body[1].value = <<" ", "a", "b", "c", " ">>

\* C15: a submission and the rendering of its banner leave the pending
\* clear-timers as they are, and a timer that expires empties the
\* notification area whichever submission rendered the banner in it; so the
\* banner of a second submission is removed by the first submission's timer
\* while the second's own timer is still pending.
C15_StaleTimerWipes ==
    [][/\ saveNet'.issued # saveNet.issued => timers' = timers
       /\ (notificationArea' # notificationArea /\ notificationArea' # <<>>) =>
             timers' = timers
       /\ (timers' < timers /\ notificationArea # <<>>) =>
             (notificationArea' = <<>> /\ timers' = timers - 1)]_vars

\* Two submissions are finalized and one timer has expired, the first
\* submission's: the area is empty although the second submission rendered
\* its banner and its own timer has not expired yet.
C15_Witness ==
    /\ saveNet.issued = 2
    /\ saveNet.finalized = 2
    /\ saves = <<>>
    /\ timers = 1
    /\ notificationArea = <<>>

\* C16: while a request issued by a widget stays unsettled, the widget's
\* loading, once true, stays true whatever else happens on the widget.
C16_HungKeepsLoading ==
    [][\A w \in Widgets :
          (/\ ui[w].loading = TRUE
           /\ \E i \in DOMAIN reqs[w] : \E j \in DOMAIN reqs'[w] :
                 /\ reqs'[w][j].id = reqs[w][i].id
                 /\ reqs[w][i].st \in {"fetch", "json"}
                 /\ reqs'[w][j].st \in {"fetch", "json"})
          => ui'[w].loading = TRUE]_vars

\* C17: in every reachable state of a search widget, searched = false implies
\* that results is the empty list (results cleared by a too-short search()
\* stay empty until the next valid search, whatever response arrives).
C17_UnsearchedIsEmpty ==
    \A w \in SearchIds : ui[w].searched = FALSE => ui[w].results = EmptyList

\* C18: searched is false before any search(); a step changes the searched of
\* a search widget only if it is a search() call, which leaves it equal to
\* "the trimmed query has at least 3 characters"; a step changes query only
\* if it is a user edit; the response, error and finalization handlers leave
\* both as they are.
C18_HandlersKeepQueryState ==
    /\ \A w \in SearchIds : ui[w].searched = FALSE
    /\ [][\A w \in SearchIds :
             /\ Search(w) => /\ ui'[w].searched = (Len(Trim(ui[w].query)) >= 3)
                             /\ ui'[w].query = ui[w].query
             /\ ui'[w].searched # ui[w].searched => Search(w)
             /\ ui'[w].query # ui[w].query => \E q \in QueryInputs : SetQuery(w, q)
             /\ \A i \in DOMAIN reqs[w] :
                    ThenHandler(w, i) \/ CatchHandler(w, i) \/ FinallyHandler(w, i)
                    => /\ ui'[w].query = ui[w].query
                       /\ ui'[w].searched = ui[w].searched]_vars

\* A valid search has been answered and finalized, the user has then edited
\* the query down to a too-short text without searching again, and searched
\* is still true while new results are shown.
C18_Witness ==
    /\ net["search"].issued = 1
    /\ net["search"].finalized = 1
    /\ ui["search"].searched = TRUE
    /\ ui["search"].results # EmptyList
    /\ Len(Trim(ui["search"].query)) < 3

====
